---- MODULE Spec2Model ----
(***************************************************************************)
(* LiteJSON (carrolliain/jsonlite): a document store with backup and       *)
(* atomic replace (FileManager), a session authority (AuthManager), a      *)
(* schema registry (SchemaValidator) and the express routes composing      *)
(* them.                                                                   *)
(*                                                                         *)
(* Conventions of the model                                                *)
(*  - A string the code inspects character by character (a request name,   *)
(*    a file name) is a sequence of tokens, each token a run of characters *)
(*    the code treats alike: a word of [a-zA-Z0-9_-], a ".json" suffix in  *)
(*    some letter case, ".", "..", "/", or a character outside the safe    *)
(*    class.                                                               *)
(*  - A JSON value is a tagged record; a file's content is the sequence of *)
(*    lexical tokens JSON.stringify emits (white space left out), and      *)
(*    JSON.parse is a recursive-descent parser over such a sequence.       *)
(*  - The clock is Date.now() in milliseconds; it never goes back, and two  *)
(*    calls within one millisecond return the same value.                  *)
(*  - Every route handler runs to completion (all file system calls are    *)
(*    the synchronous ones), so a handler is one action.                   *)
(***************************************************************************)
EXTENDS Integers, Sequences, FiniteSets, TLC

VARIABLES
    now,        \* Date.now()
    sessions,   \* AuthManager.sessions : sessionId -> AuthSession
    data,       \* the data directory   : file name -> content
    history,    \* the backup directory : backup name -> content
    schemasDir, \* the schemas directory: file name -> content
    schemas,    \* SchemaValidator.schemas : schemaName -> schema
    ajv,        \* SchemaValidator.ajv     : key -> schema added to Ajv
    calls,      \* the writeFile calls in progress: caller -> frame
    configFile, \* the configuration file: missing, unparsable or its JSON
    config,     \* ConfigLoader.config: null or the merged configuration
    ledger,     \* history of each session id: when it was last returned by
                \* createSession, whether it was invalidated since, whether
                \* it was ever removed from the session map
    resp        \* the request (or call) just served and its response

vars ==
    <<now, sessions, data, history, schemasDir, schemas, ajv, calls, configFile, config,
      ledger, resp>>

----------------------------------------------------------------------------
(* JSON values                                                             *)

JNull == [t |-> "null"]
JBool(b) == [t |-> "bool", b |-> b]
JNum(n) == [t |-> "num", n |-> n]
JStr(s) == [t |-> "str", s |-> s]
JArr(a) == [t |-> "arr", a |-> a]
JObj(o) == [t |-> "obj", o |-> o]

EmptyMap == <<>>

\* The order in which an object's own keys are enumerated (integer-like keys
\* first, as in JavaScript); the model's objects are unordered maps.
KeyOrder == <<"0", "title", "content", "type", "required">>

RECURSIVE KeysFrom(_, _)
KeysFrom(o, i) ==
    IF i > Len(KeyOrder) THEN <<>>
    ELSE IF KeyOrder[i] \in DOMAIN o THEN <<KeyOrder[i]>> \o KeysFrom(o, i + 1)
    ELSE KeysFrom(o, i + 1)

Keys(o) == KeysFrom(o, 1)

\* Lexical tokens of a JSON text: a punctuation mark, a literal, a number in
\* decimal, or a string, written as the quote mark followed by its characters.
Quote == "\""
Puncts == {"{", "}", "[", "]", ":", ","}
Literals == {"null", "true", "false"}
Digits == <<"0", "1", "2", "3">>

\* Number.prototype.toString for the numbers of the model, and its inverse.
NumberToString(n) == Digits[n + 1]
IsNumeral(tok) == \E i \in 1..Len(Digits) : Digits[i] = tok
ParseNumeral(tok) == (CHOOSE i \in 1..Len(Digits) : Digits[i] = tok) - 1

\* JSON.stringify(value, null, 2) for a JSON value: the token sequence of the
\* text (the indentation is white space between tokens).
RECURSIVE Stringify(_)
RECURSIVE StringifyElems(_, _)
RECURSIVE StringifyMembers(_, _, _)
Stringify(v) ==
    CASE v.t = "null" -> <<"null">>
      [] v.t = "bool" -> <<IF v.b THEN "true" ELSE "false">>
      [] v.t = "num" -> <<NumberToString(v.n)>>
      [] v.t = "str" -> <<Quote, v.s>>
      [] v.t = "arr" -> <<"[">> \o StringifyElems(v.a, 1) \o <<"]">>
      [] v.t = "obj" -> <<"{">> \o StringifyMembers(v.o, Keys(v.o), 1) \o <<"}">>

StringifyElems(a, i) ==
    IF i > Len(a) THEN <<>>
    ELSE (IF i > 1 THEN <<",">> ELSE <<>>)
         \o Stringify(a[i]) \o StringifyElems(a, i + 1)

StringifyMembers(o, ks, i) ==
    IF i > Len(ks) THEN <<>>
    ELSE (IF i > 1 THEN <<",">> ELSE <<>>)
         \o <<Quote, ks[i], ":">> \o Stringify(o[ks[i]])
         \o StringifyMembers(o, ks, i + 1)

\* JSON.parse: recursive descent. A result is [ok, v, next]; ok = FALSE is the
\* SyntaxError JSON.parse throws.
ParseFail == [ok |-> FALSE]

IsPunct(toks, i, p) == i <= Len(toks) /\ toks[i] = p

RECURSIVE ParseValue(_, _)
RECURSIVE ParseElems(_, _, _)
RECURSIVE ParseMembers(_, _, _)
ParseValue(toks, i) ==
    IF i > Len(toks) THEN ParseFail
    ELSE LET tok == toks[i] IN
         CASE tok \in Literals ->
                [ok |-> TRUE, next |-> i + 1,
                 v |-> IF tok = "null" THEN JNull ELSE JBool(tok = "true")]
           [] IsNumeral(tok) ->
                [ok |-> TRUE, next |-> i + 1, v |-> JNum(ParseNumeral(tok))]
           [] tok = Quote ->
                IF i + 1 > Len(toks) THEN ParseFail
                ELSE [ok |-> TRUE, next |-> i + 2, v |-> JStr(toks[i + 1])]
           [] tok = "[" ->
                IF IsPunct(toks, i + 1, "]")
                THEN [ok |-> TRUE, next |-> i + 2, v |-> JArr(<<>>)]
                ELSE ParseElems(toks, i + 1, <<>>)
           [] tok = "{" ->
                IF IsPunct(toks, i + 1, "}")
                THEN [ok |-> TRUE, next |-> i + 2, v |-> JObj(EmptyMap)]
                ELSE ParseMembers(toks, i + 1, EmptyMap)
           [] OTHER -> ParseFail

ParseElems(toks, i, acc) ==
    LET e == ParseValue(toks, i) IN
    IF ~e.ok THEN ParseFail
    ELSE IF IsPunct(toks, e.next, ",")
         THEN ParseElems(toks, e.next + 1, Append(acc, e.v))
         ELSE IF IsPunct(toks, e.next, "]")
              THEN [ok |-> TRUE, next |-> e.next + 1, v |-> JArr(Append(acc, e.v))]
              ELSE ParseFail

ParseMembers(toks, i, acc) ==
    IF ~(i + 2 <= Len(toks) /\ toks[i] = Quote /\ toks[i + 2] = ":")
    THEN ParseFail
    ELSE LET e == ParseValue(toks, i + 3) IN
         IF ~e.ok THEN ParseFail
         ELSE LET acc2 == (toks[i + 1] :> e.v) @@ acc IN
              IF IsPunct(toks, e.next, ",")
              THEN ParseMembers(toks, e.next + 1, acc2)
              ELSE IF IsPunct(toks, e.next, "}")
                   THEN [ok |-> TRUE, next |-> e.next + 1, v |-> JObj(acc2)]
                   ELSE ParseFail

JSONParse(toks) ==
    LET r == ParseValue(toks, 1) IN
    IF r.ok /\ r.next = Len(toks) + 1 THEN [ok |-> TRUE, v |-> r.v] ELSE ParseFail

----------------------------------------------------------------------------
(* Finite maps (a directory, a Map) and names                              *)

Put(m, k, v) == (k :> v) @@ m
Remove(m, k) == [x \in DOMAIN m \ {k} |-> m[x]]

\* The ".json" suffix in the letter cases /\.json$/i accepts.
JsonExts == {".json", ".JSON", ".Json"}

\* The tokens that stand for one character outside [a-zA-Z0-9._-]; every
\* other token of a name is made of characters of that class only.
UnsafeTokens == {" ", "\\", "/", ":", "%"}

RECURSIVE LastIndexOf(_, _, _)
LastIndexOf(n, tok, i) ==
    IF i = 0 THEN 0 ELSE IF n[i] = tok THEN i ELSE LastIndexOf(n, tok, i - 1)

RECURSIVE StripTrailing(_, _)
StripTrailing(n, tok) ==
    IF Len(n) > 0 /\ n[Len(n)] = tok THEN StripTrailing(SubSeq(n, 1, Len(n) - 1), tok)
    ELSE n

\* path.basename (POSIX): trailing separators dropped, then what follows the
\* last separator.
Basename(n) ==
    LET m == StripTrailing(n, "/") IN
    SubSeq(m, LastIndexOf(m, "/", Len(m)) + 1, Len(m))

\* A sanitizer that returns the name it is given.
KeepFilename(filename) == filename

\* FileManager.sanitizeFilename
SanitizeFilename(filename) ==
    LET b == Basename(filename) IN
    [i \in 1..Len(b) |-> IF b[i] \in UnsafeTokens THEN "_" ELSE b[i]]

\* sanitizedFilename.replace(/\.json$/i, '')
StripJsonExt(n) ==
    IF Len(n) > 0 /\ n[Len(n)] \in JsonExts THEN SubSeq(n, 1, Len(n) - 1) ELSE n

\* FileManager.getFilePath: the name of the file inside dataDir.
GetFilePath(filename) == Append(StripJsonExt(SanitizeFilename(filename)), ".json")

\* A writer that has no temp file: it writes the document's own file.
TempPathInPlace(filePath) == filePath

\* `${filePath}.tmp`
TempPath(filePath) == Append(filePath, ".tmp")

\* String.prototype.replace('.json', ''): the first occurrence, case-sensitive.
RECURSIVE FirstIndexOf(_, _, _)
FirstIndexOf(n, tok, i) ==
    IF i > Len(n) THEN 0 ELSE IF n[i] = tok THEN i ELSE FirstIndexOf(n, tok, i + 1)

ReplaceFirstJson(n) ==
    LET i == FirstIndexOf(n, ".json", 1) IN
    IF i = 0 THEN n ELSE SubSeq(n, 1, i - 1) \o SubSeq(n, i + 1, Len(n))

\* file.endsWith('.json')
EndsWithJson(n) == Len(n) > 0 /\ n[Len(n)] = ".json"

----------------------------------------------------------------------------
(* The clock                                                               *)

\* const maxAge = 24 * 60 * 60 * 1000 (milliseconds)
maxAge == 24 * 60 * 60 * 1000

\* The instants the clock takes: millisecond 0 to Horizon, and the Horizon
\* milliseconds that follow millisecond maxAge.
Horizon == 1
Instants == (0..Horizon) \cup ((maxAge + 1)..(maxAge + Horizon))

\* new Date().toISOString().replace(/[:.]/g, '-'): the date and the time of
\* day to the millisecond.
MsPerDay == 24 * 60 * 60 * 1000
ISOTimestamp(t) == [date |-> t \div MsPerDay, time |-> t % MsPerDay]

----------------------------------------------------------------------------
(* FileManager (core/fileManager.ts)                                       *)

\* What the file system calls of one operation do: copy (copyFileSync
\* succeeds), write (writeFileSync: "ok", "none": it throws and leaves no
\* file, "partial": it throws and leaves a truncated file), rename
\* (renameSync succeeds), unlink (unlinkSync succeeds).
AllFs == [copy |-> TRUE, write |-> "ok", rename |-> TRUE, unlink |-> TRUE]

FsOutcomes ==
    {o \in [copy : BOOLEAN, write : {"ok", "none", "partial"},
            rename : BOOLEAN, unlink : BOOLEAN] :
        /\ (o.write # "ok" => o.rename)
        /\ (o.write = "none" => o.unlink)
        /\ (o.write = "ok" /\ o.rename => o.unlink)}

\* The faults of deleteFile's two calls.
DeleteOutcomes ==
    {o \in [copy : BOOLEAN, write : {"ok"}, rename : {TRUE}, unlink : BOOLEAN] : TRUE}

\* A write cut short: a proper prefix of the text.
Truncated(text) == SubSeq(text, 1, Len(text) \div 2)

\* path.join(historyDir, `${path.basename(filePath)}.${timestamp}`): the
\* timestamp has a fixed width, so the joined string determines both parts.
BackupPath(filePath, t) == [base |-> filePath, ts |-> ISOTimestamp(t)]

\* FileManager.createBackup: the new content of the backup directory.
CreateBackup(d, h, filePath, t, copyOk) ==
    IF filePath \in DOMAIN d /\ copyOk
    THEN Put(h, BackupPath(filePath, t), d[filePath])
    ELSE h

NotFound == [success |-> FALSE, error |-> "File not found"]
Failure(msg) == [success |-> FALSE, error |-> msg]
Success(v) == [success |-> TRUE, data |-> v]
SuccessNoData == [success |-> TRUE]

\* FileManager.readFile
ReadFile(d, filename) ==
    LET filePath == GetFilePath(filename) IN
    IF filePath \notin DOMAIN d THEN NotFound
    ELSE LET jsonData == JSONParse(d[filePath]) IN
         IF jsonData.ok THEN Success(jsonData.v) ELSE Failure("Failed to read file")

\* fs.writeFileSync(tempPath, jsonString)
WriteFileSync(d, path, text, outcome) ==
    CASE outcome = "ok" -> Put(d, path, text)
      [] outcome = "partial" -> Put(d, path, Truncated(text))
      [] OTHER -> d

\* fs.renameSync(tempPath, filePath)
RenameSync(d, from, to) == IF from = to THEN d ELSE Remove(Put(d, to, d[from]), from)

\* A catch block that leaves the temp file where it is.
CleanupTempNever(d, tempPath, unlinkOk) == d

\* The catch block of writeFile: best-effort removal of the temp file.
CleanupTemp(d, tempPath, unlinkOk) ==
    IF tempPath \in DOMAIN d /\ unlinkOk THEN Remove(d, tempPath) ELSE d

\* FileManager.writeFile: [data, history, res] after the call.
WriteFile(d, h, filename, doc, t, fs) ==
    LET filePath == GetFilePath(filename)
        tempPath == TempPath(filePath)
        h1 == CreateBackup(d, h, filePath, t, fs.copy)
        d1 == WriteFileSync(d, tempPath, Stringify(doc), fs.write)
    IN  IF fs.write = "ok" /\ fs.rename
        THEN [data |-> RenameSync(d1, tempPath, filePath), history |-> h1,
              res |-> Success(doc)]
        ELSE [data |-> CleanupTemp(d1, tempPath, fs.unlink), history |-> h1,
              res |-> Failure("Failed to write file")]

\* A deleteFile that backs up and reports success but leaves the file.
DeleteFileKeeping(d, h, filename, t, fs) ==
    LET filePath == GetFilePath(filename) IN
    IF filePath \notin DOMAIN d THEN [data |-> d, history |-> h, res |-> NotFound]
    ELSE [data |-> d, history |-> CreateBackup(d, h, filePath, t, fs.copy),
          res |-> SuccessNoData]

\* FileManager.deleteFile
DeleteFile(d, h, filename, t, fs) ==
    LET filePath == GetFilePath(filename) IN
    IF filePath \notin DOMAIN d THEN [data |-> d, history |-> h, res |-> NotFound]
    ELSE LET h1 == CreateBackup(d, h, filePath, t, fs.copy) IN
         IF fs.unlink
         THEN [data |-> Remove(d, filePath), history |-> h1, res |-> SuccessNoData]
         ELSE [data |-> d, history |-> h1, res |-> Failure("Failed to delete file")]

\* FileManager.listFiles: readdir, filter endsWith('.json'), replace('.json', '')
ListFiles(d) == {ReplaceFirstJson(f) : f \in {g \in DOMAIN d : EndsWithJson(g)}}

\* FileManager.fileExists
FileExists(d, filename) == GetFilePath(filename) \in DOMAIN d

----------------------------------------------------------------------------
(* AuthManager (core/auth.ts)                                              *)

\* The configuration the server is started with (the init command's file).
AdminUsername == "admin"
AdminPassword == "admin123"
BcryptHash(password) == <<"bcrypt", password>>
AdminPasswordHash == BcryptHash(AdminPassword)
Permissions ==
    (<<"about", ".json">> :> "public") @@ (<<"menu", ".json">> :> "admin")

\* bcrypt.compare(password, hash)
VerifyPassword(password, hash) == BcryptHash(password) = hash

\* An authenticate that accepts every username and password.
AuthenticateAnyone(username, password) == TRUE

\* AuthManager.authenticate
Authenticate(username, password) ==
    IF username # AdminUsername THEN FALSE
    ELSE VerifyPassword(password, AdminPasswordHash)

\* The strings generateSessionId (two Math.random() draws) can return.
SessionIds == {"s1", "s2"}

\* No cookie, no Authorization header.
NoToken == "none"

\* AuthManager.createSession with generateSessionId returning sessionId
CreateSession(sess, sessionId, username, t) ==
    Put(sess, sessionId, [username |-> username, authenticated |-> TRUE, timestamp |-> t])

\* An expiry test that already refuses a session exactly 24 hours old.
ExpiredAtMaxAge(session, t) == t - session.timestamp >= maxAge

\* sessionAge > maxAge
Expired(session, t) == t - session.timestamp > maxAge

\* A validateSession that restarts the 24 hours at every successful call.
ValidateSessionSliding(sess, sessionId, t) ==
    IF sessionId \notin DOMAIN sess THEN [ok |-> FALSE, sessions |-> sess]
    ELSE IF Expired(sess[sessionId], t)
         THEN [ok |-> FALSE, sessions |-> Remove(sess, sessionId)]
         ELSE [ok |-> sess[sessionId].authenticated,
               sessions |-> [sess EXCEPT ![sessionId].timestamp = t]]

\* AuthManager.validateSession: the value returned and the sessions after it.
ValidateSession(sess, sessionId, t) ==
    IF sessionId \notin DOMAIN sess THEN [ok |-> FALSE, sessions |-> sess]
    ELSE IF Expired(sess[sessionId], t)
         THEN [ok |-> FALSE, sessions |-> Remove(sess, sessionId)]
         ELSE [ok |-> sess[sessionId].authenticated, sessions |-> sess]

\* AuthManager.invalidateSession
InvalidateSession(sess, sessionId) == Remove(sess, sessionId)

\* The ledger after createSession has returned sessionId at time t.
Issue(led, sessionId, t) ==
    Put(led, sessionId,
        [at |-> t, revoked |-> FALSE,
         removed |-> sessionId \in DOMAIN led /\ led[sessionId].removed])

\* The ledger after invalidateSession(sessionId).
Revoke(led, sessionId) ==
    IF sessionId \in DOMAIN led
    THEN [led EXCEPT ![sessionId].revoked = TRUE, ![sessionId].removed = TRUE]
    ELSE led

\* The ledger after validateSession has turned the session map `sess` into
\* `sess2`: an entry that has gone was evicted.
Track(led, sess, sess2) ==
    [x \in DOMAIN led |->
        IF x \in DOMAIN sess /\ x \notin DOMAIN sess2
        THEN [led[x] EXCEPT !.removed = TRUE] ELSE led[x]]

\* req.cookies?.sessionId || req.headers.authorization?.replace('Bearer ', '')
RequestSessionId(cookie, bearer) == IF cookie # NoToken THEN cookie ELSE bearer

\* A gate that lets through every request presenting a session id, without
\* asking validateSession.
RequireAuthPresent(sess, cookie, bearer, t) ==
    [pass |-> RequestSessionId(cookie, bearer) # NoToken, sessions |-> sess]

\* AuthManager.requireAuth: pass = next() is called, else 401.
RequireAuth(sess, cookie, bearer, t) ==
    LET sessionId == RequestSessionId(cookie, bearer) IN
    IF sessionId = NoToken THEN [pass |-> FALSE, sessions |-> sess]
    ELSE LET v == ValidateSession(sess, sessionId, t) IN
         [pass |-> v.ok, sessions |-> v.sessions]

\* AuthManager.optionalAuth: pass = req.isAuthenticated.
OptionalAuth(sess, cookie, bearer, t) ==
    LET sessionId == RequestSessionId(cookie, bearer) IN
    IF sessionId = NoToken THEN [pass |-> FALSE, sessions |-> sess]
    ELSE LET v == ValidateSession(sess, sessionId, t) IN
         [pass |-> v.ok, sessions |-> v.sessions]

\* AuthManager.requiresAdmin
RequiresAdmin(filename) ==
    filename \in DOMAIN Permissions /\ Permissions[filename] = "admin"

----------------------------------------------------------------------------
(* SchemaValidator (core/schema.ts)                                        *)

TypeNames == {"object", "array", "string", "number", "integer", "boolean", "null"}

IsStr(v) == v.t = "str"

\* Ajv's check of a schema against the meta-schema, for the keywords type and
\* required; a schema that is not an object is rejected.
AjvSchemaOk(schema) ==
    /\ schema.t = "obj"
    /\ ("type" \in DOMAIN schema.o =>
            IsStr(schema.o["type"]) /\ schema.o["type"].s \in TypeNames)
    /\ ("required" \in DOMAIN schema.o =>
            /\ schema.o["required"].t = "arr"
            /\ \A i \in 1..Len(schema.o["required"].a) : IsStr(schema.o["required"].a[i]))

\* ajv.addSchema(schema, key): [ok, ajv]; ok = FALSE when it throws. An array
\* is taken as a list of schemas, each added under its own $id; the schemas
\* of this model carry no $id.
AjvAddSchema(a, schema, key) ==
    IF schema.t = "arr"
    THEN [ok |-> Len(schema.a) = 0, ajv |-> a]
    ELSE IF AjvSchemaOk(schema) /\ key \notin DOMAIN a
         THEN [ok |-> TRUE, ajv |-> Put(a, key, schema)]
         ELSE [ok |-> FALSE, ajv |-> a]

\* The loop of loadSchemas over the directory listing `files`, inside one
\* try block: the first entry that throws ends the loop.
RECURSIVE LoadLoop(_, _, _, _, _)
LoadLoop(sdir, files, i, reg, a) ==
    IF i > Len(files) THEN [schemas |-> reg, ajv |-> a]
    ELSE LET file == files[i]
             schemaName == ReplaceFirstJson(file)
             schema == JSONParse(sdir[file])
         IN  IF ~schema.ok THEN [schemas |-> reg, ajv |-> a]
             ELSE LET added == AjvAddSchema(a, schema.v, schemaName) IN
                  IF ~added.ok THEN [schemas |-> reg, ajv |-> a]
                  ELSE LoadLoop(sdir, files, i + 1,
                                Put(reg, schemaName, schema.v), added.ajv)

\* The orders in which readdirSync can list a set of files.
RECURSIVE Listings(_)
Listings(S) ==
    IF S = {} THEN {<<>>}
    ELSE UNION {{<<f>> \o rest : rest \in Listings(S \ {f})} : f \in S}

SchemaFiles(sdir) == {f \in DOMAIN sdir : EndsWithJson(f)}

\* A reload that keeps the map and the Ajv instance it had.
ReloadSchemasKeeping(sdir, files) == LoadLoop(sdir, files, 1, schemas, ajv)

\* SchemaValidator.reloadSchemas (and the constructor): a cleared map, a new
\* Ajv, then loadSchemas over the listing `files`.
ReloadSchemas(sdir, files) == LoadLoop(sdir, files, 1, EmptyMap, EmptyMap)

TypeMatches(type, v) ==
    CASE type = "object" -> v.t = "obj"
      [] type = "array" -> v.t = "arr"
      [] type = "string" -> v.t = "str"
      [] type \in {"number", "integer"} -> v.t = "num"
      [] type = "boolean" -> v.t = "bool"
      [] OTHER -> v.t = "null"

AjvError(keyword, param) == [instancePath |-> "", keyword |-> keyword, param |-> param]

\* The compiled validator with allErrors: the errors of the keywords type and
\* required, in schema order.
AjvErrors(schema, v) ==
    LET typeErrors ==
            IF "type" \in DOMAIN schema.o /\ ~TypeMatches(schema.o["type"].s, v)
            THEN <<AjvError("type", schema.o["type"].s)>> ELSE <<>>
        required ==
            IF "required" \in DOMAIN schema.o /\ v.t = "obj"
            THEN schema.o["required"].a ELSE <<>>
        missing == SelectSeq(required, LAMBDA k : k.s \notin DOMAIN v.o)
    IN  typeErrors \o [i \in 1..Len(missing) |-> AjvError("required", missing[i].s)]

Valid == [valid |-> TRUE]
Invalid(errors) == [valid |-> FALSE, errors |-> errors]

\* SchemaValidator.validate
Validate(reg, a, filename, v) ==
    LET schemaName == ReplaceFirstJson(filename) IN
    IF schemaName \notin DOMAIN reg THEN Valid
    ELSE IF schemaName \notin DOMAIN a THEN Valid
         ELSE LET errors == AjvErrors(a[schemaName], v) IN
              IF errors = <<>> THEN Valid ELSE Invalid(errors)

\* SchemaValidator.hasSchema
HasSchema(reg, filename) == ReplaceFirstJson(filename) \in DOMAIN reg

----------------------------------------------------------------------------
(* Paths of the schema routes (api/schema.ts)                              *)

\* The configured directories, relative to the working directory.
DataDirName == <<"data">>
SchemasDirName == <<"schemas">>

\* The segments of a path: the runs of tokens between separators.
RECURSIVE Segments(_, _, _)
Segments(n, i, cur) ==
    IF i > Len(n) THEN <<cur>>
    ELSE IF n[i] = "/" THEN <<cur>> \o Segments(n, i + 1, <<>>)
         ELSE Segments(n, i + 1, Append(cur, n[i]))

\* path.normalize over the segments, from the directories in `stack`; a ".."
\* with nothing left to drop leaves the working directory.
RECURSIVE NormalizeFrom(_, _, _)
NormalizeFrom(stack, segs, i) ==
    IF i > Len(segs) THEN [inside |-> TRUE, parts |-> stack]
    ELSE CASE segs[i] = <<>> \/ segs[i] = <<".">> -> NormalizeFrom(stack, segs, i + 1)
           [] segs[i] = <<"..">> ->
                IF Len(stack) = 0 THEN [inside |-> FALSE, parts |-> <<>>]
                ELSE NormalizeFrom(SubSeq(stack, 1, Len(stack) - 1), segs, i + 1)
           [] OTHER -> NormalizeFrom(Append(stack, segs[i]), segs, i + 1)

\* path.join(dir, file), from the working directory.
PathJoin(dir, file) == NormalizeFrom(<<dir>>, Segments(file, 1, <<>>), 1)

HistoryDirName == <<".history">>

\* new Date().toISOString().replace(/[:.]/g, '-') as one token of a name: it
\* is made of digits, 'T', 'Z' and '-' at every instant.
TimestampToken == "1970-01-01T00-00-00-000Z"

\* The paths the file system calls of readFile, writeFile, deleteFile and
\* fileExists are given for a name: filePath and tempPath, and the backupPath
\* of createBackup(filePath).
Touched(filename) ==
    LET filePath == GetFilePath(filename) IN
    [paths |-> {PathJoin(DataDirName, filePath), PathJoin(DataDirName, TempPath(filePath))},
     backup |-> PathJoin(HistoryDirName, Basename(filePath) \o <<".", TimestampToken>>)]

\* path.join(schemasDir, `${filename.replace('.json', '')}.json`): the
\* directory the path lies in ("schemas", "data" or "other") and the file.
SchemaPath(filename) ==
    LET p == NormalizeFrom(<<SchemasDirName>>,
                           Segments(Append(ReplaceFirstJson(filename), ".json"), 1, <<>>), 1)
    IN  IF p.inside /\ Len(p.parts) = 2 /\ p.parts[1] = SchemasDirName
        THEN [dir |-> "schemas", file |-> p.parts[2]]
        ELSE IF p.inside /\ Len(p.parts) = 2 /\ p.parts[1] = DataDirName
             THEN [dir |-> "data", file |-> p.parts[2]]
             ELSE [dir |-> "other", file |-> <<>>]

----------------------------------------------------------------------------
(* Requests and responses                                                  *)

\* The data (or schema) field a request body does not have: undefined.
Absent == [t |-> "absent"]

\* !data
Falsy(v) ==
    \/ v.t \in {"absent", "null"}
    \/ v.t = "bool" /\ ~v.b
    \/ v.t = "num" /\ v.n = 0
    \/ v.t = "str" /\ v.s = ""

\* Response bodies.
ErrorBody(msg) == [t |-> "error", error |-> msg]
ErrorDetails(msg, details) == [t |-> "error", error |-> msg, details |-> details]
SuccessData(v) == [t |-> "success", data |-> v]
SuccessBody == [t |-> "success"]
NoBody == [t |-> "nobody"]

\* The request just served: the route, the name in the URL, the data sent,
\* whether a carrier (cookie or header) held a session that was valid when
\* the request arrived, and the response.
Response(op, name, sent, valid, status, body) ==
    [op |-> op, name |-> name, sent |-> sent, valid |-> valid,
     status |-> status, body |-> body]

NoResponse == Response("none", <<>>, Absent, FALSE, 0, NoBody)

\* A session of `sess` that validateSession would accept at time t.
ValidNow(sess, tok, t) ==
    tok \in DOMAIN sess /\ sess[tok].authenticated /\ t - sess[tok].timestamp <= maxAge

CarriesValid(sess, cookie, bearer, t) ==
    ValidNow(sess, cookie, t) \/ ValidNow(sess, bearer, t)

\* The keys an object spread ({...v}) copies: an object's own keys, an
\* array's indices; a number, a boolean and null have none. A string of this
\* model is one character long where it is spread.
IndexKey(i) == <<"0", "1", "2">>[i]

Spread(v) ==
    CASE v.t = "obj" -> v.o
      [] v.t = "arr" -> [k \in {IndexKey(i) : i \in 1..Len(v.a)} |->
                            v.a[CHOOSE i \in 1..Len(v.a) : IndexKey(i) = k]]
      [] v.t = "str" /\ v.s # "" -> ("0" :> v)
      [] OTHER -> EmptyMap

\* A merge in which the existing document's keys win.
MergedDataExistingWins(existing, patch) == JObj(Spread(existing) @@ Spread(patch))

\* { ...existingResult.data, ...data }
MergedData(existing, patch) == JObj(Spread(patch) @@ Spread(existing))

----------------------------------------------------------------------------
(* The HTTP surface: inputs                                                *)

DocA == JObj("title" :> JStr("x"))
DocB == JObj(("title" :> JStr("x")) @@ ("content" :> JStr("y")))
DocZ == JObj("title" :> JStr("z"))
SchemaTC ==
    JObj(("type" :> JStr("object")) @@
         ("required" :> JArr(<<JStr("title"), JStr("content")>>)))

\* What a request presents: a cookie and an Authorization header, each a
\* session id or nothing.
Cred(cookie, bearer) == [cookie |-> cookie, bearer |-> bearer]

\* The ways a request can present the session id "s1" (and "s2", which in
\* these specifications no login returns): nothing, the cookie, the header,
\* and a cookie with another id next to the header.
AllCreds ==
    {Cred(NoToken, NoToken), Cred("s1", NoToken), Cred(NoToken, "s1"), Cred("s2", "s1")}

\* The body of a login request; "" is a field the body does not have or has
\* empty.
Credentials(username, password) ==
    [t |-> "credentials", username |-> username, password |-> password]

Logins ==
    {[username |-> AdminUsername, password |-> AdminPassword],
     [username |-> AdminUsername, password |-> "guess"],
     [username |-> "eve", password |-> AdminPassword],
     [username |-> AdminUsername, password |-> ""],
     [username |-> "", password |-> AdminPassword]}

\* The inputs of the requests of the specification Spec (every route that
\* changes a document or a schema, behind its gate): the names in the URL,
\* what the cookie and the header carry, the data and schema sent, the ids
\* generateSessionId returns, the credentials of a login, the instants of the
\* clock and what the file system calls do.
Http ==
    [names |-> {<<"menu", ".json">>},
     creds |-> AllCreds,
     payloads |-> {DocB},
     schemas |-> {SchemaTC},
     sessionIds |-> {"s1"},
     logins |-> Logins,
     instants |-> Instants,
     fsOutcomes |-> {AllFs},
     deleteOutcomes |-> {AllFs}]

\* ConfigLoader: the configuration file is missing, holds text that is not
\* JSON, or holds an object with some of the keys admin, port, dataDir and
\* schemasDir; "" is a string field that is empty or not there (NoHash for
\* the password hash).
NoHash == <<>>
MissingFile == [t |-> "missing"]
Unparsable == [t |-> "unparsable"]
Parsed(userConfig) == [t |-> "json", v |-> userConfig]
Null == [t |-> "null"]

PortMax == 65535

DEFAULT_CONFIG ==
    ("dataDir" :> "./data") @@ ("schemasDir" :> "./schemas") @@ ("port" :> 3000)

\* { ...DEFAULT_CONFIG, ...userConfig, permissions: ... }
MergedConfig(userConfig) == userConfig @@ DEFAULT_CONFIG

Loaded(c) == [t |-> "config", v |-> c]
Thrown(msg) == [success |-> FALSE, error |-> msg]

\* ConfigLoader.validateConfig: the message of the error thrown, or "".
ValidateConfig(c) ==
    IF "admin" \notin DOMAIN c \/ c["admin"].username = "" \/ c["admin"].passwordHash = NoHash
    THEN "Admin username and password hash are required"
    ELSE IF c["port"] < 1 \/ c["port"] > PortMax
    THEN "Port must be between 1 and 65535"
    ELSE IF c["dataDir"] = "" \/ c["schemasDir"] = ""
    THEN "Data and schemas directories are required"
    ELSE ""

\* ConfigLoader.load: [config, res] after the call, on the loader's field
\* `cached` and the file `file`.
Load(cached, file) ==
    IF cached # Null THEN [config |-> cached, res |-> Success(cached.v)]
    ELSE IF file = MissingFile
    THEN [config |-> cached, res |-> Thrown("Failed to load config: Config file not found")]
    ELSE IF file = Unparsable
    THEN [config |-> cached, res |-> Thrown("Failed to load config: Unexpected token")]
    ELSE LET merged == MergedConfig(file.v)
             error == ValidateConfig(merged)
         IN  IF error # ""
             THEN [config |-> Loaded(merged),
                   res |-> Thrown("Failed to load config: " \o error)]
             ELSE [config |-> Loaded(merged), res |-> Success(merged)]

Init ==
    /\ now = 0
    /\ sessions = EmptyMap
    /\ data = EmptyMap
    /\ history = EmptyMap
    /\ schemasDir = EmptyMap
    /\ schemas = EmptyMap
    /\ ajv = EmptyMap
    /\ calls = EmptyMap
    /\ ledger = EmptyMap
    /\ configFile = MissingFile
    /\ config = Null
    /\ resp = NoResponse

\* Time passes.
Tick(P) ==
    /\ \E t \in P.instants : t > now /\ now' = t
    /\ resp' = NoResponse
    /\ UNCHANGED <<sessions, data, history, schemasDir, schemas, ajv, calls, ledger,
                   configFile, config>>

\* The gate of the routes under /api/file that change a document:
\* optionalAuth (mounted on /api/file), then requireAuth.
FileGate(cookie, bearer) ==
    RequireAuth(OptionalAuth(sessions, cookie, bearer, now).sessions, cookie, bearer, now)

\* POST /api/auth/login
Login(P) ==
    \E login \in P.logins :
        LET username == login.username
            password == login.password
            sent == Credentials(username, password)
        IN
        /\ IF username = "" \/ password = ""
           THEN /\ resp' = Response("login", <<>>, sent, FALSE, 400,
                                    ErrorBody("Username and password are required"))
                /\ UNCHANGED <<sessions, ledger>>
           ELSE IF ~Authenticate(username, password)
                THEN /\ resp' = Response("login", <<>>, sent, FALSE, 401,
                                         ErrorBody("Invalid credentials"))
                     /\ UNCHANGED <<sessions, ledger>>
                ELSE \E sessionId \in P.sessionIds :
                        /\ sessions' = CreateSession(sessions, sessionId, username, now)
                        /\ ledger' = Issue(ledger, sessionId, now)
                        /\ resp' = Response("login", <<>>, sent, FALSE, 200,
                                            [t |-> "success", sessionId |-> sessionId])
        /\ UNCHANGED <<configFile, config, now, calls, data, history, schemasDir, schemas, ajv>>

\* POST /api/auth/logout
Logout(P) ==
    \E cred \in P.creds :
        LET cookie == cred.cookie
            bearer == cred.bearer
            sessionId == RequestSessionId(cookie, bearer)
        IN
        /\ sessions' = IF sessionId # NoToken THEN InvalidateSession(sessions, sessionId)
                       ELSE sessions
        /\ ledger' = IF sessionId # NoToken THEN Revoke(ledger, sessionId) ELSE ledger
        /\ resp' = Response("logout", <<>>, Absent,
                            CarriesValid(sessions, cookie, bearer, now), 200, SuccessBody)
        /\ UNCHANGED <<configFile, config, now, calls, data, history, schemasDir, schemas, ajv>>

\* GET /data/:filename
GetData(P) ==
    \E filename \in P.names, cred \in P.creds :
        LET cookie == cred.cookie
            bearer == cred.bearer
            valid == CarriesValid(sessions, cookie, bearer, now)
            result == ReadFile(data, filename)
        IN  /\ resp' =
                 IF RequiresAdmin(filename)
                 THEN Response("GET /data", filename, Absent, valid, 401,
                               ErrorBody("Authentication required"))
                 ELSE IF ~result.success
                      THEN Response("GET /data", filename, Absent, valid, 404,
                                    ErrorBody(result.error))
                      ELSE Response("GET /data", filename, Absent, valid, 200, result.data)
            /\ UNCHANGED <<configFile, config, now, calls, ledger, sessions, data, history, schemasDir, schemas, ajv>>

\* GET /api/file/:filename (after optionalAuth)
GetFile(P) ==
    \E filename \in P.names, cred \in P.creds :
        LET cookie == cred.cookie
            bearer == cred.bearer
            valid == CarriesValid(sessions, cookie, bearer, now)
            auth == OptionalAuth(sessions, cookie, bearer, now)
            result == ReadFile(data, filename)
        IN  /\ sessions' = auth.sessions
            /\ ledger' = Track(ledger, sessions, auth.sessions)
            /\ resp' =
                 IF RequiresAdmin(filename) /\ ~auth.pass
                 THEN Response("GET /api/file", filename, Absent, valid, 401,
                               ErrorBody("Authentication required"))
                 ELSE IF ~result.success
                      THEN Response("GET /api/file", filename, Absent, valid, 404,
                                    ErrorBody(result.error))
                      ELSE Response("GET /api/file", filename, Absent, valid, 200,
                                    result.data)
            /\ UNCHANGED <<configFile, config, now, calls, data, history, schemasDir, schemas, ajv>>

\* The handlers of POST and PUT /api/file/:filename, once the gate has let the
\* request through.
ReplaceHandler(P, op, filename, payload, valid) ==
    IF Falsy(payload)
    THEN /\ resp' = Response(op, filename, payload, valid, 400,
                             ErrorBody("Data is required"))
         /\ UNCHANGED <<data, history>>
    ELSE LET validation == Validate(schemas, ajv, filename, payload) IN
         IF ~validation.valid
         THEN /\ resp' = Response(op, filename, payload, valid, 400,
                                  ErrorDetails("Validation failed", validation.errors))
              /\ UNCHANGED <<data, history>>
         ELSE \E fs \in P.fsOutcomes :
                LET w == WriteFile(data, history, filename, payload, now, fs) IN
                /\ data' = w.data
                /\ history' = w.history
                /\ resp' = IF w.res.success
                           THEN Response(op, filename, payload, valid, 200,
                                         SuccessData(w.res.data))
                           ELSE Response(op, filename, payload, valid, 500,
                                         ErrorBody(w.res.error))

Unauthorized(op, filename, sent, valid) ==
    /\ resp' = Response(op, filename, sent, valid, 401,
                        ErrorBody("Authentication required"))
    /\ UNCHANGED <<data, history, schemasDir, schemas, ajv>>

\* POST /api/file/:filename
PostFile(P) ==
    \E filename \in P.names, cred \in P.creds :
        LET cookie == cred.cookie
            bearer == cred.bearer
            gate == FileGate(cookie, bearer)
            valid == CarriesValid(sessions, cookie, bearer, now)
        IN  /\ sessions' = gate.sessions
            /\ ledger' = Track(ledger, sessions, gate.sessions)
            /\ UNCHANGED <<configFile, config, now, calls>>
            /\ IF ~gate.pass THEN Unauthorized("POST /api/file", filename, Absent, valid)
               ELSE /\ \E payload \in P.payloads :
                         ReplaceHandler(P, "POST /api/file", filename, payload, valid)
                    /\ UNCHANGED <<schemasDir, schemas, ajv>>

\* PUT /api/file/:filename
PutFile(P) ==
    \E filename \in P.names, cred \in P.creds :
        LET cookie == cred.cookie
            bearer == cred.bearer
            gate == FileGate(cookie, bearer)
            valid == CarriesValid(sessions, cookie, bearer, now)
        IN  /\ sessions' = gate.sessions
            /\ ledger' = Track(ledger, sessions, gate.sessions)
            /\ UNCHANGED <<configFile, config, now, calls>>
            /\ IF ~gate.pass THEN Unauthorized("PUT /api/file", filename, Absent, valid)
               ELSE /\ \E payload \in P.payloads :
                         ReplaceHandler(P, "PUT /api/file", filename, payload, valid)
                    /\ UNCHANGED <<schemasDir, schemas, ajv>>

\* PATCH /api/file/:filename
PatchFile(P) ==
    \E filename \in P.names, cred \in P.creds :
        LET cookie == cred.cookie
            bearer == cred.bearer
            gate == FileGate(cookie, bearer)
            valid == CarriesValid(sessions, cookie, bearer, now)
            op == "PATCH /api/file"
        IN  /\ sessions' = gate.sessions
            /\ ledger' = Track(ledger, sessions, gate.sessions)
            /\ UNCHANGED <<configFile, config, now, calls>>
            /\ IF ~gate.pass THEN Unauthorized(op, filename, Absent, valid)
               ELSE /\ UNCHANGED <<schemasDir, schemas, ajv>>
                    /\ \E payload \in P.payloads :
                        LET existingResult == ReadFile(data, filename) IN
                        IF Falsy(payload)
                        THEN /\ resp' = Response(op, filename, payload, valid, 400,
                                                 ErrorBody("Data is required"))
                             /\ UNCHANGED <<data, history>>
                        ELSE IF ~existingResult.success
                        THEN /\ resp' = Response(op, filename, payload, valid, 404,
                                                 ErrorBody("File not found"))
                             /\ UNCHANGED <<data, history>>
                        ELSE LET mergedData == MergedData(existingResult.data, payload)
                                 validation == Validate(schemas, ajv, filename, mergedData)
                             IN
                             IF ~validation.valid
                             THEN /\ resp' = Response(op, filename, payload, valid, 400,
                                        ErrorDetails("Validation failed", validation.errors))
                                  /\ UNCHANGED <<data, history>>
                             ELSE \E fs \in P.fsOutcomes :
                                    LET w == WriteFile(data, history, filename, mergedData,
                                                       now, fs) IN
                                    /\ data' = w.data
                                    /\ history' = w.history
                                    /\ resp' = IF w.res.success
                                               THEN Response(op, filename, payload, valid,
                                                             200, SuccessData(w.res.data))
                                               ELSE Response(op, filename, payload, valid,
                                                             500, ErrorBody(w.res.error))

\* DELETE /api/file/:filename
DeleteFileRoute(P) ==
    \E filename \in P.names, cred \in P.creds :
        LET cookie == cred.cookie
            bearer == cred.bearer
            gate == FileGate(cookie, bearer)
            valid == CarriesValid(sessions, cookie, bearer, now)
            op == "DELETE /api/file"
        IN  /\ sessions' = gate.sessions
            /\ ledger' = Track(ledger, sessions, gate.sessions)
            /\ UNCHANGED <<configFile, config, now, calls>>
            /\ IF ~gate.pass THEN Unauthorized(op, filename, Absent, valid)
               ELSE /\ UNCHANGED <<schemasDir, schemas, ajv>>
                    /\ \E fs \in P.deleteOutcomes :
                        LET r == DeleteFile(data, history, filename, now, fs) IN
                        /\ data' = r.data
                        /\ history' = r.history
                        /\ resp' = IF ~r.res.success
                                   THEN Response(op, filename, Absent, valid, 404,
                                                 ErrorBody(r.res.error))
                                   ELSE Response(op, filename, Absent, valid, 200,
                                                 SuccessBody)

\* The directory a schema route's path lies in, as the route finds it.
DirOf(p) ==
    CASE p.dir = "schemas" -> schemasDir
      [] p.dir = "data" -> data
      [] OTHER -> EmptyMap

\* GET /api/schema/:filename
GetSchema(P) ==
    \E filename \in P.names :
        LET schemaPath == SchemaPath(filename)
            dir == DirOf(schemaPath)
            op == "GET /api/schema"
        IN  /\ resp' =
                 IF schemaPath.file \notin DOMAIN dir
                 THEN Response(op, filename, Absent, FALSE, 404,
                               ErrorBody("Schema not found"))
                 ELSE LET schema == JSONParse(dir[schemaPath.file]) IN
                      IF schema.ok THEN Response(op, filename, Absent, FALSE, 200, schema.v)
                      ELSE Response(op, filename, Absent, FALSE, 500,
                                    ErrorBody("Failed to read schema"))
            /\ UNCHANGED <<configFile, config, now, calls, ledger, sessions, data, history, schemasDir, schemas, ajv>>

\* schemaValidator.reloadSchemas() over the schemas directory `sdir`.
Reload(sdir) ==
    \E files \in Listings(SchemaFiles(sdir)) :
        LET loaded == ReloadSchemas(sdir, files) IN
        /\ schemas' = loaded.schemas
        /\ ajv' = loaded.ajv

\* POST /api/schema/:filename
PostSchema(P) ==
    \E filename \in P.names, cred \in P.creds :
        LET cookie == cred.cookie
            bearer == cred.bearer
            gate == RequireAuth(sessions, cookie, bearer, now)
            valid == CarriesValid(sessions, cookie, bearer, now)
            op == "POST /api/schema"
        IN  /\ sessions' = gate.sessions
            /\ ledger' = Track(ledger, sessions, gate.sessions)
            /\ UNCHANGED <<configFile, config, now, calls, history>>
            /\ IF ~gate.pass THEN Unauthorized(op, filename, Absent, valid)
               ELSE \E schema \in P.schemas, written \in BOOLEAN :
                    IF Falsy(schema)
                    THEN /\ resp' = Response(op, filename, schema, valid, 400,
                                             ErrorBody("Schema is required"))
                         /\ UNCHANGED <<data, schemasDir, schemas, ajv>>
                    ELSE IF schema.t \notin {"obj", "arr"}
                    THEN /\ resp' = Response(op, filename, schema, valid, 400,
                                             ErrorBody("Invalid schema format"))
                         /\ UNCHANGED <<data, schemasDir, schemas, ajv>>
                    ELSE IF ~written
                    THEN /\ resp' = Response(op, filename, schema, valid, 500,
                                             ErrorBody("Failed to save schema"))
                         /\ UNCHANGED <<data, schemasDir, schemas, ajv>>
                    ELSE LET schemaPath == SchemaPath(filename)
                             sdir == IF schemaPath.dir = "schemas"
                                     THEN Put(schemasDir, schemaPath.file, Stringify(schema))
                                     ELSE schemasDir
                         IN  /\ schemasDir' = sdir
                             /\ data' = IF schemaPath.dir = "data"
                                        THEN Put(data, schemaPath.file, Stringify(schema))
                                        ELSE data
                             /\ Reload(sdir)
                             /\ resp' = Response(op, filename, schema, valid, 200,
                                                 [t |-> "success", schema |-> schema])

\* DELETE /api/schema/:filename
DeleteSchema(P) ==
    \E filename \in P.names, cred \in P.creds :
        LET cookie == cred.cookie
            bearer == cred.bearer
            gate == RequireAuth(sessions, cookie, bearer, now)
            valid == CarriesValid(sessions, cookie, bearer, now)
            op == "DELETE /api/schema"
            schemaPath == SchemaPath(filename)
        IN  /\ sessions' = gate.sessions
            /\ ledger' = Track(ledger, sessions, gate.sessions)
            /\ UNCHANGED <<configFile, config, now, calls, history>>
            /\ IF ~gate.pass THEN Unauthorized(op, filename, Absent, valid)
               ELSE IF schemaPath.file \notin DOMAIN DirOf(schemaPath)
               THEN /\ resp' = Response(op, filename, Absent, valid, 404,
                                        ErrorBody("Schema not found"))
                    /\ UNCHANGED <<data, schemasDir, schemas, ajv>>
               ELSE \E unlinked \in BOOLEAN :
                    IF ~unlinked
                    THEN /\ resp' = Response(op, filename, Absent, valid, 500,
                                             ErrorBody("Failed to delete schema"))
                         /\ UNCHANGED <<data, schemasDir, schemas, ajv>>
                    ELSE LET sdir == IF schemaPath.dir = "schemas"
                                     THEN Remove(schemasDir, schemaPath.file)
                                     ELSE schemasDir
                         IN  /\ schemasDir' = sdir
                             /\ data' = IF schemaPath.dir = "data"
                                        THEN Remove(data, schemaPath.file)
                                        ELSE data
                             /\ Reload(sdir)
                             /\ resp' = Response(op, filename, Absent, valid, 200,
                                                 SuccessBody)

Next ==
    \/ Tick(Http)
    \/ Login(Http)
    \/ Logout(Http)
    \/ PostFile(Http)
    \/ PutFile(Http)
    \/ PatchFile(Http)
    \/ DeleteFileRoute(Http)
    \/ PostSchema(Http)
    \/ DeleteSchema(Http)

Spec == Init /\ [][Next]_vars

----------------------------------------------------------------------------
(* The session authority called directly                                   *)

\* What a call of the AuthManager returned: the session id it was about and
\* the value.
Returned(sessionId, value) == [t |-> "returned", token |-> sessionId, value |-> value]

Call(op, body) == Response(op, <<>>, Absent, FALSE, 0, body)

\* authManager.createSession(username)
CreateSessionCall(P) ==
    \E sessionId \in P.sessionIds :
        /\ sessions' = CreateSession(sessions, sessionId, AdminUsername, now)
        /\ ledger' = Issue(ledger, sessionId, now)
        /\ resp' = Call("createSession", Returned(sessionId, TRUE))
        /\ UNCHANGED <<configFile, config, now, calls, data, history, schemasDir, schemas, ajv>>

\* authManager.validateSession(sessionId)
ValidateSessionCall(P) ==
    \E sessionId \in P.sessionIds :
        LET v == ValidateSession(sessions, sessionId, now) IN
        /\ sessions' = v.sessions
        /\ ledger' = Track(ledger, sessions, v.sessions)
        /\ resp' = Call("validateSession", Returned(sessionId, v.ok))
        /\ UNCHANGED <<configFile, config, now, calls, data, history, schemasDir, schemas, ajv>>

\* authManager.invalidateSession(sessionId)
InvalidateSessionCall(P) ==
    \E sessionId \in P.sessionIds :
        /\ sessions' = InvalidateSession(sessions, sessionId)
        /\ ledger' = Revoke(ledger, sessionId)
        /\ resp' = Call("invalidateSession", Returned(sessionId, TRUE))
        /\ UNCHANGED <<configFile, config, now, calls, data, history, schemasDir, schemas, ajv>>

\* The inputs of the specification SpecAuth: two session ids, each of which
\* generateSessionId may return at any call.
Auth ==
    [sessionIds |-> SessionIds,
     logins |-> Logins,
     instants |-> Instants]

NextAuth ==
    \/ Tick(Auth)
    \/ Login(Auth)
    \/ CreateSessionCall(Auth)
    \/ ValidateSessionCall(Auth)
    \/ InvalidateSessionCall(Auth)

SpecAuth == Init /\ [][NextAuth]_vars

\* C5: validateSession(token) returns true while the token, since
\* createSession last returned it, has not been invalidated and is at most 24
\* hours old; it returns false once the token is older than 24 hours, and false
\* after invalidateSession(token).
C5_SessionLifecycle ==
    [][(resp'.op = "validateSession" /\ resp'.body.token \in DOMAIN ledger)
         => LET l == ledger[resp'.body.token]
                age == now - l.at
            IN  /\ (~l.revoked /\ age <= maxAge) => resp'.body.value
                /\ age > maxAge => ~resp'.body.value
                /\ l.revoked => ~resp'.body.value]_vars

\* A token that was never invalidated is refused because it is too old.
C5_Witness ==
    /\ resp.op = "validateSession"
    /\ ~resp.body.value
    /\ resp.body.token \in DOMAIN ledger
    /\ ~ledger[resp.body.token].revoked
    /\ now - ledger[resp.body.token].at > maxAge

\* C6: once a session id has been removed from the session map (by
\* invalidateSession or by the eviction of validateSession), validateSession
\* returns false for it ever after.
C6_RemovedStaysInvalid ==
    [][(resp'.op = "validateSession" /\ resp'.body.token \in DOMAIN ledger
          /\ ledger[resp'.body.token].removed)
         => ~resp'.body.value]_vars

\* C27: validateSession(token) on a session at most 24 hours old returns true
\* and leaves the session map, the entry's timestamp included, as it was; on
\* an older session it returns false and removes that entry only.
C27_ValidationKeepsTheTimestamp ==
    [][(resp'.op = "validateSession" /\ resp'.body.token \in DOMAIN sessions)
         => LET token == resp'.body.token
                age == now - sessions[token].timestamp
            IN  IF age <= maxAge
                THEN resp'.body.value /\ sessions' = sessions
                ELSE /\ ~resp'.body.value
                     /\ DOMAIN sessions' = DOMAIN sessions \ {token}
                     /\ \A s \in DOMAIN sessions' : sessions'[s] = sessions[s]]_vars

\* A session exactly 24 hours old has just been found valid.
C27_Witness ==
    /\ resp.op = "validateSession"
    /\ resp.body.value
    /\ resp.body.token \in DOMAIN sessions
    /\ now - sessions[resp.body.token].timestamp = maxAge

----------------------------------------------------------------------------
(* The document store called directly, one file system call per step       *)

\* The frame of a writeFile call: where it stands (pc), its arguments, what
\* readFile returned for the name when it was called (prev), and whether no
\* other operation has changed the document since (alone).
InProgress == {"backup", "open", "fill", "rename", "catch"}
Ended == {"done", "failed", "crashed"}

Step(w, step, ok) == [t |-> "step", caller |-> w, step |-> step, ok |-> ok]
Result(name, copied, result) ==
    [t |-> "result", name |-> name, copied |-> copied, result |-> result,
     touched |-> Touched(name)]

At(w, pc) == w \in DOMAIN calls /\ calls[w].pc = pc

\* The frames after another operation has changed the document at filePath.
Disturb(c, filePath) ==
    [w \in DOMAIN c |->
        IF GetFilePath(c[w].filename) = filePath THEN [c[w] EXCEPT !.alone = FALSE]
        ELSE c[w]]

StoreFrame == UNCHANGED <<configFile, config, now, sessions, ledger, schemasDir, schemas, ajv>>

\* The file a caller opened in writeFileSync stays the file it writes to when
\* its name changes: fd is where that file is now, "temp" (tempPath), "file"
\* (renamed to filePath) or "gone" (unlinked or replaced). The frames after
\* the file at `from` of the document filePath has moved to `to`.
Moved(c, filePath, from, to) ==
    [w \in DOMAIN c |->
        IF GetFilePath(c[w].filename) = filePath /\ c[w].fd = from
        THEN [c[w] EXCEPT !.fd = to] ELSE c[w]]

\* The path a caller's open file has.
FdPath(frame) ==
    IF frame.fd = "file" THEN GetFilePath(frame.filename)
    ELSE TempPath(GetFilePath(frame.filename))

\* fileManager.writeFile(filename, doc) is called.
WriteBegin(P) ==
    \E w \in P.writers, filename \in P.names, doc \in P.payloads :
        /\ IF w \in DOMAIN calls THEN calls[w].pc \in Ended ELSE TRUE
        /\ calls' = Put(calls, w, [pc |-> "backup", filename |-> filename, doc |-> doc,
                                   prev |-> ReadFile(data, filename), alone |-> TRUE,
                                   fd |-> "none"])
        /\ resp' = Call("writeFile", Step(w, "called", TRUE))
        /\ UNCHANGED <<data, history>>
        /\ StoreFrame

\* this.createBackup(filePath)
WriteBackup(P) ==
    \E w \in P.writers, copyOk \in P.copyOutcomes :
        /\ At(w, "backup")
        /\ history' = CreateBackup(data, history, GetFilePath(calls[w].filename), now, copyOk)
        /\ calls' = [calls EXCEPT ![w].pc = "open"]
        /\ resp' = Call("writeFile", Step(w, "createBackup", copyOk))
        /\ UNCHANGED data
        /\ StoreFrame

\* fs.writeFileSync(tempPath, ...): the file is opened (created or emptied).
WriteOpen(P) ==
    \E w \in P.writers, ok \in P.oks :
        /\ At(w, "open")
        /\ data' = IF ok THEN Put(data, TempPath(GetFilePath(calls[w].filename)), <<>>)
                   ELSE data
        /\ calls' = [calls EXCEPT ![w].pc = IF ok THEN "fill" ELSE "catch",
                                  ![w].fd = IF ok THEN "temp" ELSE "none"]
        /\ resp' = Call("writeFile", Step(w, "open", ok))
        /\ UNCHANGED history
        /\ StoreFrame

\* fs.writeFileSync(tempPath, jsonString): the text is written, all of it or
\* part of it before an error.
WriteFill(P) ==
    \E w \in P.writers, outcome \in {IF ok THEN "ok" ELSE "partial" : ok \in P.oks} :
        /\ At(w, "fill")
        /\ data' = IF calls[w].fd = "gone" THEN data
                   ELSE WriteFileSync(data, FdPath(calls[w]), Stringify(calls[w].doc), outcome)
        /\ calls' = [calls EXCEPT ![w].pc = IF outcome = "ok" THEN "rename" ELSE "catch",
                                  ![w].fd = "none"]
        /\ resp' = Call("writeFile", Step(w, "write", outcome = "ok"))
        /\ UNCHANGED history
        /\ StoreFrame

\* fs.renameSync(tempPath, filePath); return { success: true, data }
WriteRename(P) ==
    \E w \in P.writers, renameOk \in P.oks :
        LET filePath == GetFilePath(calls[w].filename)
            tempPath == TempPath(filePath)
            ok == renameOk /\ tempPath \in DOMAIN data
            ended == [calls EXCEPT ![w].pc = IF ok THEN "done" ELSE "catch"]
        IN  /\ At(w, "rename")
            /\ data' = IF ok THEN RenameSync(data, tempPath, filePath) ELSE data
            /\ calls' = IF ok
                        THEN Moved(Moved(ended, filePath, "file", "gone"),
                                   filePath, "temp", "file")
                        ELSE ended
            /\ resp' = IF ok
                       THEN Call("writeFile",
                                 Result(calls[w].filename, TRUE, Success(calls[w].doc)))
                       ELSE Call("writeFile", Step(w, "rename", FALSE))
            /\ UNCHANGED history
            /\ StoreFrame

\* The catch block: the temp file is removed if it can be, and the failure
\* is returned.
WriteCatch(P) ==
    \E w \in P.writers, unlinkOk \in P.oks :
        /\ At(w, "catch")
        /\ data' = CleanupTemp(data, TempPath(GetFilePath(calls[w].filename)), unlinkOk)
        /\ calls' = LET ended == [calls EXCEPT ![w].pc = "failed"] IN
                    IF data' # data
                    THEN Moved(ended, GetFilePath(calls[w].filename), "temp", "gone")
                    ELSE ended
        /\ resp' = Call("writeFile",
                        Result(calls[w].filename, unlinkOk, Failure("Failed to write file")))
        /\ UNCHANGED history
        /\ StoreFrame

\* The process stops in the middle of a writeFile call.
Crash(P) ==
    \E w \in P.writers :
        /\ w \in DOMAIN calls /\ calls[w].pc \in InProgress
        /\ calls' = [calls EXCEPT ![w].pc = "crashed", ![w].fd = "none"]
        /\ resp' = Call("writeFile", Step(w, "crash", FALSE))
        /\ UNCHANGED <<data, history>>
        /\ StoreFrame

\* fileManager.deleteFile(filename)
DeleteFileCall(P) ==
    \E filename \in P.names, fs \in P.deleteOutcomes :
        LET r == DeleteFile(data, history, filename, now, fs) IN
        /\ data' = r.data
        /\ history' = r.history
        /\ calls' = IF r.data # data
                    THEN Moved(Disturb(calls, GetFilePath(filename)),
                               GetFilePath(filename), "file", "gone")
                    ELSE calls
        /\ resp' = Call("deleteFile",
                        Result(filename, fs.copy, r.res) @@ [unlinked |-> fs.unlink])
        /\ StoreFrame

\* fileManager.readFile(filename)
ReadFileCall(P) ==
    \E filename \in P.names :
        /\ resp' = Call("readFile", Result(filename, TRUE, ReadFile(data, filename)))
        /\ UNCHANGED <<data, history, calls>>
        /\ StoreFrame

\* The inputs of the specification SpecStore: one caller of writeFile, two
\* spellings of one document's name, two documents, every fault of the file
\* system calls.
Store ==
    [writers |-> {"w1"},
     names |-> {<<"menu">>, <<"menu", ".json">>},
     payloads |-> {DocA, DocB},
     instants |-> 0..Horizon,
     copyOutcomes |-> BOOLEAN,
     oks |-> BOOLEAN,
     deleteOutcomes |-> DeleteOutcomes]

NextStore ==
    \/ Tick(Store)
    \/ WriteBegin(Store)
    \/ WriteBackup(Store)
    \/ WriteOpen(Store)
    \/ WriteFill(Store)
    \/ WriteRename(Store)
    \/ WriteCatch(Store)
    \/ Crash(Store)
    \/ DeleteFileCall(Store)
    \/ ReadFileCall(Store)

SpecStore == Init /\ [][NextStore]_vars

\* C2: from the call of writeFile(name, d) on, as long as no other operation
\* changes the document, readFile(name) returns what it returned before the
\* call until the rename has happened, and d afterwards; a call that fails or
\* stops before the rename leaves what was there before.
C2_WriteIsAtomic ==
    \A w \in DOMAIN calls :
        calls[w].alone =>
            ReadFile(data, calls[w].filename) =
                IF calls[w].pc = "done" THEN Success(calls[w].doc) ELSE calls[w].prev

\* The temp file holds part of the new text while the document is still the
\* complete previous one, and the call then fails.
C2_Witness ==
    \E w \in DOMAIN calls :
        LET filePath == GetFilePath(calls[w].filename)
            tempPath == TempPath(filePath)
        IN  /\ calls[w].alone
            /\ calls[w].pc \in {"catch", "failed", "crashed"}
            /\ calls[w].prev.success
            /\ calls[w].prev.data # calls[w].doc
            /\ tempPath \in DOMAIN data
            /\ data[tempPath] = Truncated(Stringify(calls[w].doc))

\* A step that makes a backup of an existing document: createBackup inside
\* writeFile, or a deleteFile that succeeds, with the copy not failing.
BackupStepOf(r, d) ==
    \/ /\ r.op = "writeFile" /\ r.body.t = "step" /\ r.body.step = "createBackup"
       /\ r.body.ok
       /\ \E w \in DOMAIN calls : w = r.body.caller
                                  /\ GetFilePath(calls[w].filename) \in DOMAIN d
    \/ /\ r.op = "deleteFile" /\ r.body.copied /\ r.body.result.success
       /\ GetFilePath(r.body.name) \in DOMAIN d

BackedUpPath(r) ==
    IF r.op = "deleteFile" THEN GetFilePath(r.body.name)
    ELSE GetFilePath(calls[r.body.caller].filename)

\* C3: every writeFile over an existing document and every deleteFile of an
\* existing document adds exactly one new entry to the backup directory, whose
\* content is the document's content before the operation, and leaves every
\* other entry as it was, at whatever instants the operations happen (stated
\* for the operations whose copy does not fail).
C3_OneBackupPerMutation ==
    [][BackupStepOf(resp', data)
         => /\ Cardinality(DOMAIN history' \ DOMAIN history) = 1
            /\ \A b \in DOMAIN history' \ DOMAIN history :
                 history'[b] = data[BackedUpPath(resp')]
            /\ \A b \in DOMAIN history :
                 b \in DOMAIN history' /\ history'[b] = history[b]]_vars

\* The files of the documents the callers name.
DocumentPaths == {GetFilePath(filename) : filename \in Store.names}

\* C13: deleteFile(name) on an absent document returns NotFound and changes
\* neither directory; on an existing document whose unlink does not fail it
\* returns success, and then fileExists(name) is false, readFile(name) returns
\* NotFound and listFiles() omits the name; an absent document becomes present
\* only by a successful writeFile of a name of that document.
C13_DeleteRemovesUntilWritten ==
    [][/\ (resp'.op = "deleteFile")
            => LET name == resp'.body.name IN
               IF ~FileExists(data, name)
               THEN resp'.body.result = NotFound /\ data' = data /\ history' = history
               ELSE resp'.body.unlinked
                    => /\ resp'.body.result = SuccessNoData
                       /\ ~FileExists(data', name)
                       /\ ReadFile(data', name) = NotFound
                       /\ ListFiles(data') \cap {name, ReplaceFirstJson(name)} = {}
       /\ \A filePath \in DocumentPaths :
            (filePath \notin DOMAIN data /\ filePath \in DOMAIN data')
              => /\ resp'.op = "writeFile"
                 /\ resp'.body.t = "result"
                 /\ resp'.body.result.success
                 /\ GetFilePath(resp'.body.name) = filePath]_vars

\* A stored document has just been deleted, its backup is kept, and under
\* neither spelling is it found or listed.
C13_Witness ==
    /\ resp.op = "deleteFile"
    /\ resp.body.result = SuccessNoData
    /\ history # EmptyMap
    /\ \A name \in Store.names : ReadFile(data, name) = NotFound
    /\ ListFiles(data) = {}

\* C22: no step replaces or removes the content of an existing document
\* unless the backup directory then holds that content under the document's
\* name.
C22_NoMutationWithoutBackup ==
    [][\A filePath \in DocumentPaths :
         (filePath \in DOMAIN data
            /\ (filePath \notin DOMAIN data' \/ data'[filePath] # data[filePath]))
           => \E b \in DOMAIN history' :
                b.base = filePath /\ history'[b] = data[filePath]]_vars

\* C28: when writeFile reaches its catch block, it returns the failure result
\* whether or not the temp file could be removed; if the removal succeeded
\* no temp file of the name is left; and the document reads as it did when
\* writeFile was called, as long as no other operation changed it.
C28_FailedWriteCleansUp ==
    [][(resp'.op = "writeFile" /\ resp'.body.t = "result"
          /\ ~resp'.body.result.success)
         => LET filename == resp'.body.name
                tempPath == TempPath(GetFilePath(filename))
            IN  /\ resp'.body.result = Failure("Failed to write file")
                /\ resp'.body.copied => tempPath \notin DOMAIN data'
                /\ IF GetFilePath(filename) \in DOMAIN data
                   THEN /\ GetFilePath(filename) \in DOMAIN data'
                        /\ data'[GetFilePath(filename)] = data[GetFilePath(filename)]
                   ELSE GetFilePath(filename) \notin DOMAIN data'
                /\ \A w \in DOMAIN calls' :
                     (calls'[w].pc = "failed" /\ calls'[w].filename = filename
                        /\ calls'[w].alone)
                       => ReadFile(data', filename) = calls'[w].prev]_vars

\* writeFile has returned its failure after a rename that failed, the removal
\* of the temp file has failed too, and the document written before reads back.
C28_Witness ==
    /\ resp.op = "writeFile"
    /\ resp.body.t = "result"
    /\ resp.body.result = Failure("Failed to write file")
    /\ ~resp.body.copied
    /\ TempPath(GetFilePath(resp.body.name)) \in DOMAIN data
    /\ JSONParse(data[TempPath(GetFilePath(resp.body.name))]).ok
    /\ \E w \in DOMAIN calls :
         /\ calls[w].pc = "failed"
         /\ calls[w].alone
         /\ calls[w].prev.success
         /\ calls[w].prev.data # calls[w].doc
         /\ ReadFile(data, resp.body.name) = calls[w].prev

\* The inputs of the specification SpecRace: two callers of writeFile in two
\* processes that share the data directory, one document, and a file system
\* whose calls fail only for what the other caller did.
Race ==
    [writers |-> {"w1", "w2"},
     names |-> {<<"menu">>},
     payloads |-> {DocA, DocB},
     copyOutcomes |-> {TRUE},
     oks |-> {TRUE}]

NextRace ==
    \/ WriteBegin(Race)
    \/ WriteBackup(Race)
    \/ WriteOpen(Race)
    \/ WriteFill(Race)
    \/ WriteRename(Race)
    \/ WriteCatch(Race)

SpecRace == Init /\ [][NextRace]_vars

\* C25: once two callers of writeFile on one name have both returned, however
\* their file system calls interleaved, both have returned success and the
\* document is in full the payload of one that returned success.
C25_LastWriteWins ==
    (\A w \in Race.writers : w \in DOMAIN calls /\ calls[w].pc \in Ended)
      => /\ \A w \in Race.writers : calls[w].pc = "done"
         /\ \E w \in Race.writers :
              /\ calls[w].pc = "done"
              /\ ReadFile(data, calls[w].filename) = Success(calls[w].doc)

----------------------------------------------------------------------------
(* The names of documents                                                  *)

\* The longest name, in tokens, that the calls are given.
MaxNameLen == 2

\* The tokens of the names: a letter, the two separators (the second one a
\* character the sanitizer replaces), the dot names and the extension.
NameTokens == {"a", "/", "\\", ".", "..", ".json"}

\* A run of dots is written with one token, so that a name has one spelling.
OneSpelling(n) ==
    \A i \in 1..(Len(n) - 1) : ~(n[i] \in {".", ".."} /\ n[i + 1] \in {".", ".."})

Traversal == <<"..", "/", "..", "/", "etc", "/", "passwd">>

NameStrings ==
    {n \in UNION {[1..k -> NameTokens] : k \in 0..MaxNameLen} : OneSpelling(n)}
      \cup {Traversal, <<"passwd">>, <<"a", ".JSON">>, <<"a", ".json", ".JSON">>}

\* fileManager.writeFile(filename, doc), from call to return, by a caller
\* that has not called before.
WriteFileCall(P) ==
    \E w \in P.writers, filename \in P.written, doc \in P.payloads :
        LET r == WriteFile(data, history, filename, doc, now, AllFs) IN
        /\ w \notin DOMAIN calls
        /\ data' = r.data
        /\ history' = r.history
        /\ calls' = Put(calls, w, [pc |-> "done", filename |-> filename, doc |-> doc,
                                   prev |-> ReadFile(data, filename), alone |-> TRUE,
                                   fd |-> "none"])
        /\ resp' = Call("writeFile", Result(filename, TRUE, r.res))
        /\ StoreFrame

\* fileManager.fileExists(filename)
FileExistsCall(P) ==
    \E filename \in P.names :
        /\ resp' = Call("fileExists", Result(filename, TRUE, FileExists(data, filename)))
        /\ UNCHANGED <<data, history, calls>>
        /\ StoreFrame

\* fileManager.listFiles()
ListFilesCall ==
    /\ resp' = Call("listFiles", [t |-> "list", result |-> Success(ListFiles(data))])
    /\ UNCHANGED <<data, history, calls>>
    /\ StoreFrame

\* The inputs of the specification SpecNames: two callers of writeFile and
\* names that differ in one character, in a directory part and in the
\* extension.
Names ==
    [writers |-> {"w1", "w2"},
     names |-> {<<"a">>, <<"a", " ">>, <<"a", "_">>, <<"b", "/", "a">>, <<"a", ".json", ".bak">>},
     written |-> {<<"a">>, <<"a", " ">>, <<"a", "_">>, <<"b", "/", "a">>, <<"a", ".json", ".bak">>},
     payloads |-> {DocA},
     deleteOutcomes |-> {AllFs}]

NextNames ==
    \/ WriteFileCall(Names)
    \/ DeleteFileCall(Names)
    \/ ReadFileCall(Names)
    \/ FileExistsCall(Names)
    \/ ListFilesCall

SpecNames == Init /\ [][NextNames]_vars

\* C14: as long as no written document has been deleted, listFiles() holds as
\* many names as there are distinct names among the written ones, taken
\* without a trailing extension.
C14_ListHasOneNamePerWrittenName ==
    (\A w \in DOMAIN calls : calls[w].alone)
      => Cardinality(ListFiles(data))
           = Cardinality({StripJsonExt(calls[w].filename) : w \in DOMAIN calls})

\* C30: every name listFiles() returns is read by readFile as an existing
\* document, every document written by writeFile and not deleted since is
\* listed under a name that readFile resolves to its file, and no listed
\* name is that of a temp file.
C30_ListedNamesReadBack ==
    /\ \A n \in ListFiles(data) : ReadFile(data, n) # NotFound
    /\ \A w \in DOMAIN calls :
         (calls[w].pc = "done" /\ GetFilePath(calls[w].filename) \in DOMAIN data)
           => \E n \in ListFiles(data) :
                /\ GetFilePath(n) = GetFilePath(calls[w].filename)
                /\ ReadFile(data, n) = ReadFile(data, calls[w].filename)
    /\ \A n \in ListFiles(data) : n = <<>> \/ n[Len(n)] # ".tmp"

\* The inputs of the specification SpecResolve: every name of at most
\* MaxNameLen tokens, a traversal name and names with the extension in
\* another letter case and doubled; one caller that writes the traversal name.
Resolve ==
    [writers |-> {"w1"},
     names |-> NameStrings,
     written |-> {Traversal},
     payloads |-> {DocA},
     deleteOutcomes |-> {AllFs}]

NextResolve ==
    \/ WriteFileCall(Resolve)
    \/ DeleteFileCall(Resolve)
    \/ ReadFileCall(Resolve)
    \/ FileExistsCall(Resolve)

SpecResolve == Init /\ [][NextResolve]_vars

\* A path that names an entry of the directory dir itself.
DirectChild(p, dir) == p.inside /\ Len(p.parts) = 2 /\ p.parts[1] = dir

FileOps == {"readFile", "writeFile", "deleteFile", "fileExists"}

\* C15: for every name, the paths readFile, writeFile, deleteFile and
\* fileExists touch are direct children of the data directory and the backup
\* path is a direct child of the backup directory; every file the calls leave
\* is one; a read of ../../etc/passwd returns NotFound unless the data
\* directory holds passwd.json, and then that document.
C15_PathsStayInTheirDirectory ==
    /\ \A f \in DOMAIN data : DirectChild(PathJoin(DataDirName, f), DataDirName)
    /\ \A b \in DOMAIN history :
         DirectChild(PathJoin(HistoryDirName, b.base \o <<".", TimestampToken>>),
                     HistoryDirName)
    /\ resp.op \in FileOps
         => /\ \A p \in resp.body.touched.paths : DirectChild(p, DataDirName)
            /\ DirectChild(resp.body.touched.backup, HistoryDirName)
    /\ (resp.op = "readFile" /\ resp.body.name = Traversal)
         => resp.body.result = IF <<"passwd", ".json">> \in DOMAIN data
                               THEN Success(DocA) ELSE NotFound

\* A read of ../../etc/passwd has looked for data/passwd.json and found
\* nothing.
C15_Witness ==
    /\ resp.op = "readFile"
    /\ resp.body.name = Traversal
    /\ resp.body.result = NotFound
    /\ [inside |-> TRUE, parts |-> <<DataDirName, <<"passwd", ".json">>>>]
         \in resp.body.touched.paths

\* C16: the file of every name is a base followed by one '.json': the base
\* does not end in '.json' in any letter case, and the name with one more
\* '.json' suffix, in any letter case, has the same file.
C16_ExactlyOneExtension ==
    resp.op \in FileOps
      => /\ \A p \in resp.body.touched.paths :
              LET file == p.parts[Len(p.parts)]
                  base == SubSeq(file, 1, Len(file) - 1)
              IN  file[Len(file)] = ".json"
                    => ~(Len(base) > 0 /\ base[Len(base)] \in JsonExts)
         /\ \A ext \in JsonExts :
              Touched(Append(resp.body.name, ext)).paths = resp.body.touched.paths

----------------------------------------------------------------------------
(* The read routes                                                         *)

\* The inputs of the specification SpecRead: the admin-marked document under
\* the name the permission map uses and under its name without the
\* extension, a session id carried by the cookie or by the header.
Read ==
    [names |-> {<<"menu", ".json">>, <<"menu">>},
     creds |-> {Cred(NoToken, NoToken), Cred("s1", NoToken), Cred(NoToken, "s1")},
     payloads |-> {DocA, DocB},
     sessionIds |-> {"s1"},
     logins |-> Logins,
     instants |-> Instants,
     fsOutcomes |-> {AllFs}]

NextRead ==
    \/ Tick(Read)
    \/ Login(Read)
    \/ Logout(Read)
    \/ PostFile(Read)
    \/ GetData(Read)
    \/ GetFile(Read)

SpecRead == Init /\ [][NextRead]_vars

ReadOps == {"GET /data", "GET /api/file"}

\* The files of the documents the permission map marks admin.
AdminFiles == {GetFilePath(k) : k \in {p \in DOMAIN Permissions : Permissions[p] = "admin"}}

\* C4: a POST /api/file/:name with a valid session that succeeded, followed
\* at once by a GET of the same document on either read route with a valid
\* session, is answered 200 with the document that was posted.
C4_PostThenGet ==
    [][(/\ resp.op = "POST /api/file" /\ resp.status = 200
        /\ resp'.op \in ReadOps /\ resp'.valid
        /\ GetFilePath(resp'.name) = GetFilePath(resp.name))
         => (resp'.status = 200 /\ resp'.body = resp.sent)]_vars

\* C7: a read request without a valid session is never answered with the
\* content of a document whose file the permission map marks admin, under
\* whatever name the request reaches that file.
C7_AdminContentNeedsSession ==
    (resp.op \in ReadOps /\ ~resp.valid /\ GetFilePath(resp.name) \in AdminFiles)
        => resp.status # 200

\* C8: on both read routes a read of a name that requiresAdmin marks admin is
\* answered 401 exactly when the request carries no valid session, and with
\* a valid session an existing document is answered 200 with the document.
C8_AdminReadIffSession ==
    (resp.op \in ReadOps /\ RequiresAdmin(resp.name))
        => /\ (resp.status = 401) <=> ~resp.valid
           /\ (resp.valid /\ ReadFile(data, resp.name).success)
                => (resp.status = 200 /\ resp.body = ReadFile(data, resp.name).data)

----------------------------------------------------------------------------
(* Validation                                                              *)

\* A schema Ajv refuses to add: its type is no JSON Schema type.
SchemaBad == JObj("type" :> JStr("bogus"))

Validated(name, doc, result) ==
    [t |-> "validated", name |-> name, doc |-> doc, result |-> result]

\* schemaValidator.validate(filename, doc)
ValidateCall(P) ==
    \E filename \in P.names, doc \in P.payloads \ {Absent} :
        /\ resp' = Call("validate",
                        Validated(filename, doc, Validate(schemas, ajv, filename, doc)))
        /\ UNCHANGED <<configFile, config, now, calls, ledger, sessions, data, history, schemasDir, schemas, ajv>>

\* The inputs of the specification SpecValidate: a document's name with and
\* without the extension and with the extension in capitals, requests without a session and with the session
\* cookie, no data, falsy data, two documents the schema rejects and one it
\* accepts, a schema and a schema that cannot be registered.
Val ==
    [names |-> {<<"menu", ".json">>, <<"menu">>, <<"menu", ".JSON">>},
     creds |-> {Cred(NoToken, NoToken), Cred("s1", NoToken)},
     payloads |-> {Absent, JNum(0), DocB, DocZ},
     schemas |-> {SchemaTC, SchemaBad},
     sessionIds |-> {"s1"},
     logins |-> {[username |-> AdminUsername, password |-> AdminPassword]},
     fsOutcomes |-> {AllFs}]

NextValidate ==
    \/ Login(Val)
    \/ PostSchema(Val)
    \/ DeleteSchema(Val)
    \/ PostFile(Val)
    \/ PutFile(Val)
    \/ PatchFile(Val)
    \/ ValidateCall(Val)

SpecValidate == Init /\ [][NextValidate]_vars

\* The file of the schemas directory that holds the schema of a name.
SchemaFileOf(filename) == Append(ReplaceFirstJson(filename), ".json")

\* C9: validate(name, document) returns valid whenever the registry holds no
\* schema under name, and whenever the schemas directory holds no schema file
\* for name (none was ever saved, or it was deleted), for every document.
C9_NoSchemaMeansValid ==
    (resp.op = "validate"
       /\ (~HasSchema(schemas, resp.body.name)
             \/ SchemaFileOf(resp.body.name) \notin DOMAIN schemasDir))
        => resp.body.result.valid

\* A document the deleted schema rejected is valid once the schema is gone,
\* while the name's document is still stored.
C9_Witness ==
    /\ resp.op = "validate"
    /\ resp.body.doc = DocZ
    /\ resp.body.result.valid
    /\ schemas = EmptyMap
    /\ schemasDir = EmptyMap
    /\ data # EmptyMap

WriteOps == {"POST /api/file", "PUT /api/file", "PATCH /api/file"}

\* What the route validates: the data sent, or for PATCH the existing
\* document with the data sent merged over it.
Checked(r, d) ==
    IF r.op = "PATCH /api/file" THEN MergedData(ReadFile(d, r.name).data, r.sent)
    ELSE r.sent

\* The schema registered for the name rejects the value.
FailsValidation(reg, filename, v) ==
    /\ HasSchema(reg, filename)
    /\ reg[ReplaceFirstJson(filename)].t = "obj"
    /\ AjvErrors(reg[ReplaceFirstJson(filename)], v) # <<>>

\* C10: a POST, PUT or PATCH with a valid session and data that (for PATCH,
\* merged over the existing document) fails validation against the schema
\* registered for the name is answered 400 with the list of validation
\* errors, and the data directory (documents and temp files) and the backup
\* directory stay as they were.
C10_ValidationFailureIs400 ==
    [][(/\ resp'.op \in WriteOps /\ resp'.valid /\ resp'.sent # Absent
        /\ (resp'.op = "PATCH /api/file" => ReadFile(data, resp'.name).success)
        /\ FailsValidation(schemas, resp'.name, Checked(resp', data)))
         => /\ resp'.status = 400
            /\ "details" \in DOMAIN resp'.body
            /\ resp'.body.details # <<>>
            /\ UNCHANGED <<data, history>>]_vars

\* The schemas the registry holds for the document stored in filePath: those
\* registered under a name that resolves to that file.
SchemasOfFile(reg, filePath) ==
    {reg[k] : k \in {x \in DOMAIN reg : GetFilePath(x) = filePath /\ reg[x].t = "obj"}}

\* C11: a POST, PUT or PATCH answered 200 leaves in the document's file a
\* content that every schema registered for that document accepts, under
\* whatever spelling the request named the document.
C11_WrittenContentIsValid ==
    [][(resp'.op \in WriteOps /\ resp'.status = 200)
         => LET filePath == GetFilePath(resp'.name)
                written == JSONParse(data'[filePath])
            IN  /\ written.ok
                /\ \A schema \in SchemasOfFile(schemas, filePath) :
                     AjvErrors(schema, written.v) = <<>>]_vars

\* The document with the keys of E and of P, P's value where P has the key.
MergeOf(E, P) ==
    JObj([k \in DOMAIN E.o \cup DOMAIN P.o |-> IF k \in DOMAIN P.o THEN P.o[k] ELSE E.o[k]])

\* C12: PATCH with a valid session and a patch P that is an object: on a
\* stored object E the merge M of P over E is validated, and if the schema
\* accepts M then M is written and returned with 200, else the answer is 400
\* with the errors and nothing is written; on an absent document the answer
\* is 404 and no document is created.
C12_PatchMerges ==
    [][(resp'.op = "PATCH /api/file" /\ resp'.valid /\ resp'.sent.t = "obj")
         => LET E == ReadFile(data, resp'.name)
                filePath == GetFilePath(resp'.name)
            IN  IF filePath \notin DOMAIN data
                THEN resp'.status = 404 /\ data' = data
                ELSE (E.success /\ E.data.t = "obj") =>
                     LET M == MergeOf(E.data, resp'.sent) IN
                     IF FailsValidation(schemas, resp'.name, M)
                     THEN /\ resp'.status = 400
                          /\ "details" \in DOMAIN resp'.body
                          /\ data' = data
                     ELSE /\ resp'.status = 200
                          /\ resp'.body = SuccessData(M)
                          /\ ReadFile(data', resp'.name) = Success(M)]_vars

\* A patch that alone would fail the schema replaces one key of the stored
\* document and keeps the other.
C12_Witness ==
    /\ resp.op = "PATCH /api/file"
    /\ resp.status = 200
    /\ resp.sent = DocZ
    /\ resp.body = SuccessData(JObj(("title" :> JStr("z")) @@ ("content" :> JStr("y"))))
    /\ HasSchema(schemas, resp.name)

\* C17: the POST /api/file/:name that follows a POST /api/schema/:name
\* answered 200 with a schema S Ajv accepts is answered 400 when the document
\* violates S and 200 when it satisfies S; the one that follows a DELETE
\* /api/schema/:name answered 200 is answered 200 (requests with a valid
\* session and a document that is an object).
C17_SchemaChangeTakesEffect ==
    [][(resp'.op = "POST /api/file" /\ resp'.valid /\ resp'.sent.t = "obj"
          /\ resp.status = 200 /\ resp.name = resp'.name)
         => /\ (resp.op = "POST /api/schema" /\ AjvSchemaOk(resp.sent))
                 => resp'.status = IF AjvErrors(resp.sent, resp'.sent) = <<>>
                                   THEN 200 ELSE 400
            /\ resp.op = "DELETE /api/schema" => resp'.status = 200]_vars

\* C20: POST and PUT with a valid session answer 400 'Data is required' only
\* when the body has no data field; a value supplied as data that passes
\* validation is answered 200 with {success, data} and is the document stored
\* under the name.
C20_EveryValueIsADocument ==
    (resp.op \in {"POST /api/file", "PUT /api/file"} /\ resp.valid)
      => /\ (resp.status = 400 /\ resp.body = ErrorBody("Data is required"))
              => resp.sent = Absent
         /\ (resp.sent # Absent /\ ~FailsValidation(schemas, resp.name, resp.sent))
              => /\ resp.status = 200
                 /\ resp.body = SuccessData(resp.sent)
                 /\ ReadFile(data, resp.name) = Success(resp.sent)

\* C24: after construction and after every reload, every file of the schemas
\* directory that holds a schema Ajv accepts is registered under its name,
\* whatever else the directory holds and in whatever order it is listed.
C24_EveryGoodSchemaIsRegistered ==
    \A file \in SchemaFiles(schemasDir) :
        LET schema == JSONParse(schemasDir[file]) IN
        (schema.ok /\ AjvSchemaOk(schema.v))
          => /\ ReplaceFirstJson(file) \in DOMAIN schemas
             /\ schemas[ReplaceFirstJson(file)] = schema.v

----------------------------------------------------------------------------
(* The gate of the routes that change a document or a schema               *)

MutatingOps ==
    {"POST /api/file", "PUT /api/file", "PATCH /api/file", "DELETE /api/file",
     "POST /api/schema", "DELETE /api/schema"}

\* C1: a request to a route that changes a document or a schema, carrying no
\* session that is valid when it arrives (none, unknown, expired or
\* invalidated), is answered 401 and leaves the documents, the backups, the
\* schema files and the schema registry as they were.
C1_UnauthorizedChangesNothing ==
    [][(resp'.op \in MutatingOps /\ ~resp'.valid)
         => /\ resp'.status = 401
            /\ UNCHANGED <<data, history, schemasDir, schemas, ajv>>]_vars

\* An expired session is refused while a document, a backup and a schema exist.
C1_Witness ==
    /\ resp.op \in MutatingOps
    /\ ~resp.valid
    /\ resp.status = 401
    /\ now > maxAge
    /\ data # EmptyMap
    /\ history # EmptyMap
    /\ schemas # EmptyMap


\* C18: a request to a route behind the required gate that carries a valid
\* session id in the cookie or in the Authorization header, whatever the
\* other carrier holds, is not answered 401.
C18_EitherCarrierPasses ==
    [][(resp'.op \in MutatingOps /\ resp'.valid) => resp'.status # 401]_vars

----------------------------------------------------------------------------
(* The file routes over a file system whose calls can fail                 *)

\* The inputs of the specification SpecFaults: one document, a request with
\* and without the session cookie, every fault of the calls of writeFile and
\* deleteFile.
Faults ==
    [names |-> {<<"menu", ".json">>},
     creds |-> {Cred(NoToken, NoToken), Cred("s1", NoToken)},
     payloads |-> {DocA, DocB},
     sessionIds |-> {"s1"},
     logins |-> {[username |-> AdminUsername, password |-> AdminPassword]},
     instants |-> 0..Horizon,
     fsOutcomes |-> FsOutcomes,
     deleteOutcomes |-> DeleteOutcomes]

NextFaults ==
    \/ Tick(Faults)
    \/ Login(Faults)
    \/ PostFile(Faults)
    \/ DeleteFileRoute(Faults)

SpecFaults == Init /\ [][NextFaults]_vars

\* C29: a POST /api/file whose writeFile returned a failure (status 500)
\* leaves the backup directory as it was.
C29_FailedWriteLeavesNoBackup ==
    [][(resp'.op = "POST /api/file" /\ resp'.valid /\ resp'.status = 500)
         => history' = history]_vars

\* C21: DELETE /api/file/:name with a valid session answers 404 exactly when
\* the document is absent, and 500 when the document exists and its removal
\* fails.
C21_DeleteStatusTellsTheFailure ==
    [][(resp'.op = "DELETE /api/file" /\ resp'.valid)
         => /\ resp'.status = 404 <=> ~FileExists(data, resp'.name)
            /\ (FileExists(data, resp'.name) /\ FileExists(data', resp'.name))
                 => resp'.status = 500]_vars

----------------------------------------------------------------------------
(* The paths of the schema routes                                          *)

\* The inputs of the specification SpecSchemaPaths: a plain name and a name
\* that climbs out of the schemas directory (..%2Fdata%2Fmenu in the URL,
\* decoded by the router), with and without the session cookie.
SchemaNames ==
    [names |-> {<<"menu">>, <<"..", "/", "data", "/", "menu">>},
     creds |-> {Cred(NoToken, NoToken), Cred("s1", NoToken)},
     payloads |-> {DocA},
     schemas |-> {SchemaTC},
     sessionIds |-> {"s1"},
     logins |-> {[username |-> AdminUsername, password |-> AdminPassword]},
     fsOutcomes |-> {AllFs}]

NextSchemaPaths ==
    \/ Login(SchemaNames)
    \/ PostFile(SchemaNames)
    \/ GetSchema(SchemaNames)
    \/ PostSchema(SchemaNames)
    \/ DeleteSchema(SchemaNames)

SpecSchemaPaths == Init /\ [][NextSchemaPaths]_vars

SchemaOps == {"GET /api/schema", "POST /api/schema", "DELETE /api/schema"}

\* C23: the path a schema route derives from the request's name is a direct
\* child of the schemas directory, and no schema route changes the data
\* directory.
C23_SchemaRoutesStayInSchemasDir ==
    [][resp'.op \in SchemaOps
         => /\ DirectChild(PathJoin(SchemasDirName,
                                    Append(ReplaceFirstJson(resp'.name), ".json")),
                           SchemasDirName)
            /\ data' = data]_vars

----------------------------------------------------------------------------
(* The configuration                                                       *)

Admin(username, passwordHash) ==
    "admin" :> [username |-> username, passwordHash |-> passwordHash]

\* The files of the specification SpecConfig: none, one that is not JSON,
\* complete configurations with the port at its limits or left to the
\* default, and configurations that fail one check each.
ConfigFiles ==
    {MissingFile, Unparsable}
      \cup {Parsed(Admin(AdminUsername, AdminPasswordHash) @@ rest) :
              rest \in {EmptyMap, "port" :> 1, "port" :> PortMax, "port" :> 0,
                        "port" :> PortMax + 1, "dataDir" :> "", "schemasDir" :> ""}}
      \cup {Parsed(EmptyMap), Parsed(Admin("", AdminPasswordHash)),
            Parsed(Admin(AdminUsername, NoHash))}

\* The configuration file is written, replaced or removed.
SetConfigFile ==
    /\ \E file \in ConfigFiles : file # configFile /\ configFile' = file
    /\ resp' = Call("setConfigFile", [t |-> "file"])
    /\ UNCHANGED <<config, now, sessions, data, history, schemasDir, schemas, ajv, calls,
                   ledger>>

ConfigFrame ==
    UNCHANGED <<configFile, now, sessions, data, history, schemasDir, schemas, ajv, calls,
                ledger>>

\* configLoader.load()
LoadCall ==
    LET r == Load(config, configFile) IN
    /\ config' = r.config
    /\ resp' = Call("load", [t |-> "result", result |-> r.res])
    /\ ConfigFrame

\* configLoader.getConfig()
GetConfigCall ==
    LET r == Load(config, configFile) IN
    /\ config' = r.config
    /\ resp' = Call("getConfig", [t |-> "result", result |-> r.res])
    /\ ConfigFrame

\* configLoader.reload()
ReloadCall ==
    LET r == Load(Null, configFile) IN
    /\ config' = r.config
    /\ resp' = Call("reload", [t |-> "result", result |-> r.res])
    /\ ConfigFrame

NextConfig ==
    \/ SetConfigFile
    \/ LoadCall
    \/ GetConfigCall
    \/ ReloadCall

SpecConfig == Init /\ [][NextConfig]_vars

\* The checks the configuration has to pass.
PassesChecks(c) ==
    /\ "admin" \in DOMAIN c
    /\ c["admin"].username # "" /\ c["admin"].passwordHash # NoHash
    /\ c["port"] \in 1..PortMax
    /\ c["dataDir"] # "" /\ c["schemasDir"] # ""

\* C26: a configuration that load(), getConfig() or reload() returns passes
\* the checks (admin username and password hash, port in 1..65535, data and
\* schemas directory).
C26_ReturnedConfigIsValid ==
    (resp.op \in {"load", "getConfig", "reload"} /\ resp.body.result.success)
      => PassesChecks(resp.body.result.data)

====
